---- MODULE Spec2Model ----
(***************************************************************************)
(* repo-sweep: the scan engine (src/src/scanner.ts) and the interactive    *)
(* selector (src/src/ui.ts) as state machines.                             *)
(*                                                                         *)
(* SpecScan    one call of scan(rootDir, onProgress) over a directory tree *)
(* SpecFilter  the same call, reached from main with --only / --exclude    *)
(* SpecSel     one session of selectItems(items, rootDir)                  *)
(* SpecRun     main from the call of selectItems to the end of the run     *)
(* SpecArgs    main from the command line to the end of the scan           *)
(* SpecMain    main from the call of scan to the selector's first render   *)
(* SpecInert   SpecRun with keys typed after the session has resolved      *)
(* SpecFaults  scan over trees with unreadable directories and entries     *)
(* SpecStale   scan reached from main with --stale                         *)
(* SpecSink    scan with and without a progress sink                       *)
(* SpecFormat  formatSize(bytes)                                           *)
(***************************************************************************)
EXTENDS Integers, Sequences, FiniteSets, TLC

VARIABLES
    tree,          \* the directory tree below rootDir (the file system)
    filter,        \* the ScanFilter main hands to scan as third argument
    pc,            \* "args" | "scan" | "scanned" | "failed" | "select" |
                   \* "delete" | "done" | "format" | "formatted"
    stack,         \* findArtifacts activations: [dir, idx, depth]
    results,       \* scan's results array, then its return value
    progress,      \* the messages handed to onProgress, in order
    onProgress,    \* scan's progress sink: "undefined" | "returns" | "throws"
    items,         \* selectItems: the list under selection
    selected,      \* selectItems: one flag per item
    cursor,        \* selectItems: highlighted row, 0-based
    scrollOffset,  \* selectItems: first visible row, 0-based
    rows,          \* process.stdout.rows (0: not a TTY, undefined)
    rawMode,       \* process.stdin raw mode
    listening,     \* a 'data' listener is attached to stdin
    session,       \* "idle" | "waiting" | "resolved" | "exited" | "rejected"
    resolved,      \* the list the promise resolved with
    keys,          \* the last keys the listener was called with
    args,          \* main: process.argv.slice(2), each argument a token
    rmCalls,       \* main: the paths rm was called with, in order
    removed,       \* main: the paths whose rm succeeded
    exitCode,      \* "none" while the process runs, then "0" or "1"
    bytes,         \* formatSize: its argument
    formatted      \* formatSize: its result

scanVars == <<tree, filter, pc, stack, results, progress, onProgress>>
selVars == <<items, selected, cursor, scrollOffset, rows, rawMode, listening,
             session, resolved, keys>>
mainVars == <<args, rmCalls, removed, exitCode>>
fmtVars == <<bytes, formatted>>
vars == <<tree, filter, pc, stack, results, progress, onProgress, items,
          selected, cursor, scrollOffset, rows, rawMode, listening, session,
          resolved, keys, args, rmCalls, removed, exitCode, bytes, formatted>>

----------------------------------------------------------------------------
(* Bounds *)

\* directories below the root in an enumerated tree
MaxDirs == 3
\* records in the list handed to the selector
MaxItems == 6

----------------------------------------------------------------------------
(* Pattern registry: scanner.ts *)

PATTERNS ==
    [n \in {"node_modules", ".next", ".nuxt", ".output", ".svelte-kit",
            ".angular", ".cache", ".parcel-cache", ".turbo", ".vercel",
            ".expo", ".webpack", "target", "Pods", ".venv", "venv",
            "__pycache__", ".pytest_cache", ".mypy_cache", ".tox",
            ".dart_tool", ".gradle", "build", "dist", "out", "coverage",
            ".sass-cache", "bower_components", ".eggs", "DerivedData",
            ".terraform", ".serverless", ".docusaurus", ".astro",
            ".pnpm-store", ".playwright", "release"} |->
       CASE n = "node_modules" -> "Node.js dependencies"
         [] n = ".next" -> "Next.js build cache"
         [] n = ".nuxt" -> "Nuxt.js build cache"
         [] n = ".output" -> "Nuxt/Nitro output"
         [] n = ".svelte-kit" -> "SvelteKit build cache"
         [] n = ".angular" -> "Angular build cache"
         [] n = ".cache" -> "Build cache"
         [] n = ".parcel-cache" -> "Parcel bundler cache"
         [] n = ".turbo" -> "Turborepo cache"
         [] n = ".vercel" -> "Vercel deployment cache"
         [] n = ".expo" -> "Expo cache"
         [] n = ".webpack" -> "Webpack cache"
         [] n = "target" -> "Rust/Cargo build output"
         [] n = "Pods" -> "CocoaPods dependencies"
         [] n = ".venv" -> "Python virtual environment"
         [] n = "venv" -> "Python virtual environment"
         [] n = "__pycache__" -> "Python bytecode cache"
         [] n = ".pytest_cache" -> "Pytest cache"
         [] n = ".mypy_cache" -> "Mypy type checker cache"
         [] n = ".tox" -> "Tox testing cache"
         [] n = ".dart_tool" -> "Dart build cache"
         [] n = ".gradle" -> "Gradle build cache"
         [] n = "build" -> "Build output"
         [] n = "dist" -> "Build output"
         [] n = "out" -> "Build output"
         [] n = "coverage" -> "Test coverage reports"
         [] n = ".sass-cache" -> "Sass compiler cache"
         [] n = "bower_components" -> "Bower dependencies"
         [] n = ".eggs" -> "Python egg cache"
         [] n = "DerivedData" -> "Xcode build data"
         [] n = ".terraform" -> "Terraform cache"
         [] n = ".serverless" -> "Serverless Framework cache"
         [] n = ".docusaurus" -> "Docusaurus build cache"
         [] n = ".astro" -> "Astro build cache"
         [] n = ".pnpm-store" -> "pnpm global store"
         [] n = ".playwright" -> "Playwright browsers"
         [] n = "release" -> "Release builds"]

\* PATTERNS is an object literal: a key it does not own is looked up on
\* Object.prototype, and what is found there (a function, an object) is truthy.
ObjectPrototypeKeys ==
    {"constructor", "toString", "valueOf", "hasOwnProperty", "isPrototypeOf",
     "propertyIsEnumerable", "toLocaleString", "__proto__",
     "__defineGetter__", "__defineSetter__", "__lookupGetter__",
     "__lookupSetter__"}

\* PATTERNS[name]: the description, an inherited member, or undefined
Lookup(name) ==
    IF name \in DOMAIN PATTERNS THEN PATTERNS[name]
    ELSE IF name \in ObjectPrototypeKeys THEN "[inherited]"
    ELSE "undefined"

\* if (PATTERNS[entry.name])
IsPattern(name) == Lookup(name) # "undefined"

SKIP_DIRS == {".git"}

MIN_SIZE == 100 * 1024

\* the category table the documentation gives for --only / --exclude
Categories ==
    [c \in {"node", "python", "rust", "ios", "frontend", "cache", "build",
            "deploy"} |->
       CASE c = "node" -> {"node_modules", "bower_components", ".pnpm-store"}
         [] c = "python" -> {".venv", "venv", "__pycache__", ".pytest_cache",
                             ".mypy_cache", ".tox", ".eggs"}
         [] c = "rust" -> {"target"}
         [] c = "ios" -> {"Pods", "DerivedData"}
         [] c = "frontend" -> {".next", ".nuxt", ".output", ".svelte-kit",
                               ".angular", ".astro", ".docusaurus", ".expo"}
         [] c = "cache" -> {".cache", ".parcel-cache", ".turbo", ".webpack",
                            ".sass-cache", ".dart_tool", ".gradle",
                            ".terraform", ".playwright"}
         [] c = "build" -> {"build", "dist", "out", "release", "coverage"}
         [] c = "deploy" -> {".vercel", ".serverless"}]

CategoryOf(cats) == UNION {Categories[c] : c \in cats}

NoFilter == [mode |-> "none", cats |-> {}]

----------------------------------------------------------------------------
(* The file system *)

RootDir == "<rootDir>"

\* throws: stat(fullPath) of the entry fails
File(n) == [kind |-> "file", size |-> n, id |-> 0, throws |-> FALSE]
Link(n) == [kind |-> "symlink", size |-> n, id |-> 0, throws |-> FALSE]
Dir(d) == [kind |-> "dir", size |-> 0, id |-> d, throws |-> FALSE]
\* a symbolic link whose target is gone
BrokenLink == [kind |-> "symlink", size |-> 0, id |-> 0, throws |-> TRUE]

\* what a directory of an enumerated tree holds beside its subdirectories
FileChoices ==
    { <<File(102399)>>, <<File(102400)>>, <<File(1), Link(1048576)>> }

\* what the root holds beside its subdirectories
RootFiles == <<File(4096)>>

\* the names a directory of an enumerated tree can have
DirNames == {"node_modules", "dist", ".git", "src"}

\* parent[i] < i, and directories are numbered level by level, so that every
\* ordered tree of n directories below the root (0) appears once
ParentMaps(n) ==
    { p \in [1..n -> 0..(n - 1)] :
        \A i \in 1..n : /\ p[i] < i
                        /\ (i > 1 => p[i] >= p[i - 1]) }

\* two entries of one directory never have the same name
SiblingsDiffer(p, nm) ==
    \A i, j \in DOMAIN p : (i # j /\ p[i] = p[j]) => nm[i] # nm[j]

\* <rootDir>/project/{node_modules (5 MB), dist (50 KB), .git/build (200 KB)}
ProjectTree ==
    [parent |-> <<0, 1, 1, 1, 4>>,
     name |-> <<"project", "node_modules", "dist", ".git", "build">>,
     files |-> [d \in 0..5 |->
                 CASE d = 2 -> <<File(5242880)>>
                   [] d = 3 -> <<File(51200)>>
                   [] d = 4 -> <<File(23), File(41)>>
                   [] d = 5 -> <<File(204800)>>
                   [] OTHER -> <<>>],
     denied |-> {}]

\* <rootDir>/{a/node_modules (1 MB), b/node_modules (3 MB)}
SiblingTree ==
    [parent |-> <<0, 0, 1, 2>>,
     name |-> <<"a", "b", "node_modules", "node_modules">>,
     files |-> [d \in 0..4 |->
                 CASE d = 3 -> <<File(1048576)>>
                   [] d = 4 -> <<File(3145728)>>
                   [] OTHER -> <<>>],
     denied |-> {}]

\* <rootDir>/{node_modules, dist, target, venv, constructor}, 200 KB each
CategoryTree ==
    [parent |-> <<0, 0, 0, 0, 0>>,
     name |-> <<"node_modules", "dist", "target", "venv", "constructor">>,
     files |-> [d \in 0..5 |-> IF d = 0 THEN <<>> ELSE <<File(204800)>>],
     denied |-> {}]

ScenarioTrees == {ProjectTree, SiblingTree, CategoryTree}

DirsOf(t) == DOMAIN t.parent

SubDirs(t, d) == {c \in DirsOf(t) : t.parent[c] = d}

RECURSIVE Ascending(_)
Ascending(S) ==
    IF S = {} THEN <<>>
    ELSE LET m == CHOOSE x \in S : \A y \in S : x <= y
         IN  <<m>> \o Ascending(S \ {m})

\* readdir(dir, {withFileTypes: true}): the entries of directory d
Readdir(t, d) ==
    LET subs == Ascending(SubDirs(t, d))
    IN  t.files[d] \o [i \in 1..Len(subs) |-> Dir(subs[i])]

\* relative(rootDir, fullPath), as the sequence of its segments
RECURSIVE RelativePath(_, _)
RelativePath(t, d) ==
    IF d = 0 THEN <<>>
    ELSE Append(RelativePath(t, t.parent[d]), t.name[d])

\* join(dir, entry.name)
FullPath(t, d) == <<RootDir>> \o RelativePath(t, d)

----------------------------------------------------------------------------
(* scanner.ts *)

RECURSIVE GetDirStats(_, _), StatsFrom(_, _, _)

\* a directory with any failing read counts for nothing
GetDirStatsAllOrNothing(t, d) ==
    IF d \in t.denied \/ \E i \in 1..Len(t.files[d]) : t.files[d][i].throws
    THEN [size |-> 0, fileCount |-> 0]
    ELSE StatsFrom(t, Readdir(t, d), 1)

\* getDirStats(dir): size and fileCount of the subtree below d; a readdir
\* that throws is caught with nothing counted yet
GetDirStats(t, d) ==
    IF d \in t.denied THEN [size |-> 0, fileCount |-> 0]
    ELSE StatsFrom(t, Readdir(t, d), 1)

\* a loop that passes over the subdirectories the walk passes over
RECURSIVE StatsFromSkipping(_, _, _)
StatsFromSkipping(t, entries, i) ==
    IF i > Len(entries) THEN [size |-> 0, fileCount |-> 0]
    ELSE LET entry == entries[i]
             rest == StatsFromSkipping(t, entries, i + 1)
         IN  IF entry.kind \in {"file", "symlink"}
             THEN [size |-> entry.size + rest.size,
                   fileCount |-> 1 + rest.fileCount]
             ELSE IF t.name[entry.id] \in SKIP_DIRS
                       \/ IsPattern(t.name[entry.id])
             THEN rest
             ELSE LET sub == GetDirStats(t, entry.id)
                  IN  [size |-> sub.size + rest.size,
                       fileCount |-> sub.fileCount + rest.fileCount]

\* the loop of getDirStats from entry i on
StatsFrom(t, entries, i) ==
    IF i > Len(entries) THEN [size |-> 0, fileCount |-> 0]
    ELSE LET entry == entries[i]
             rest == StatsFrom(t, entries, i + 1)
         IN  IF entry.kind \in {"file", "symlink"}
             THEN IF entry.throws
                  \* fileCount++ is done, stat throws, catch {} ends the loop
                  THEN [size |-> 0, fileCount |-> 1]
                  ELSE [size |-> entry.size + rest.size,
                        fileCount |-> 1 + rest.fileCount]
             ELSE IF entry.kind = "dir"
             THEN LET sub == GetDirStats(t, entry.id)
                  IN  [size |-> sub.size + rest.size,
                       fileCount |-> sub.fileCount + rest.fileCount]
             ELSE rest

\* the object findArtifacts pushes for a matched directory
ScanResult(t, d) ==
    LET stats == GetDirStats(t, d)
    IN  [path |-> FullPath(t, d),
         relativePath |-> RelativePath(t, d),
         size |-> stats.size,
         fileCount |-> stats.fileCount,
         description |-> Lookup(t.name[d])]

\* nothing is skipped
IsSkippedNever(name) == FALSE

\* SKIP_DIRS.has(entry.name)
IsSkipped(name) == name \in SKIP_DIRS

\* results.sort((a, b) => b.size - a.size): stable, largest first
RECURSIVE InsertBySize(_, _)
InsertBySize(r, s) ==
    IF s = <<>> THEN <<r>>
    ELSE IF Head(s).size >= r.size THEN <<Head(s)>> \o InsertBySize(r, Tail(s))
    ELSE <<r>> \o s

\* the results in the order they were found
SortBySizeNot(rs) == rs

RECURSIVE SortBySize(_)
SortBySize(rs) ==
    IF rs = <<>> THEN <<>>
    ELSE InsertBySize(rs[Len(rs)], SortBySize(SubSeq(rs, 1, Len(rs) - 1)))

\* a record of exactly MIN_SIZE is dropped
KeepsRecordAbove(r) == r.size > MIN_SIZE

\* results.filter((r) => r.size >= MIN_SIZE)
KeepsRecord(r) == r.size >= MIN_SIZE

FilterMinSize(rs) == SelectSeq(rs, KeepsRecord)

\* a directory that cannot be listed is listed all the same
ListingAnyway(t, d) == Readdir(t, d)

\* try { entries = await readdir(dir, ...) } catch { return; }
Listing(t, d) == IF d \in t.denied THEN <<>> ELSE Readdir(t, d)

\* the activation of findArtifacts that is running, and the entry it is at
Top == stack[Len(stack)]
TopEntries == Listing(tree, Top.dir)
AtEntry == pc = "scan" /\ stack # <<>> /\ Top.idx <= Len(TopEntries)
Entry == TopEntries[Top.idx]
EntryName == tree.name[Entry.id]

\* onProgress?.(msg): the messages handed to the sink after the call
Notify(msg) ==
    IF onProgress = "undefined" THEN progress ELSE Append(progress, msg)

\* the loop moves on to the next entry
NextEntry == [stack EXCEPT ![Len(stack)].idx = @ + 1]

\* if (!entry.isDirectory()) continue;
SkipNonDir ==
    /\ AtEntry
    /\ Entry.kind # "dir"
    /\ stack' = NextEntry
    /\ UNCHANGED <<onProgress, tree, filter, pc, results, progress>>
    /\ UNCHANGED selVars
    /\ UNCHANGED <<mainVars, fmtVars>>

\* if (SKIP_DIRS.has(entry.name)) continue;
SkipDir ==
    /\ AtEntry
    /\ Entry.kind = "dir"
    /\ IsSkipped(EntryName)
    /\ stack' = NextEntry
    /\ UNCHANGED <<onProgress, tree, filter, pc, results, progress>>
    /\ UNCHANGED selVars
    /\ UNCHANGED <<mainVars, fmtVars>>

\* a matched directory that is walked as well
MatchDirAndDescend ==
    /\ AtEntry
    /\ Entry.kind = "dir"
    /\ ~IsSkipped(EntryName)
    /\ IsPattern(EntryName)
    /\ onProgress # "throws"
    /\ progress' = Notify([verb |-> "Checking",
                           what |-> IF Top.depth = 0 THEN <<EntryName, "/">>
                                    ELSE RelativePath(tree, Entry.id)])
    /\ results' = Append(results, ScanResult(tree, Entry.id))
    /\ stack' = Append(NextEntry,
                       [dir |-> Entry.id, idx |-> 1, depth |-> Top.depth + 1])
    /\ UNCHANGED <<onProgress, tree, filter, pc>>
    /\ UNCHANGED selVars
    /\ UNCHANGED <<mainVars, fmtVars>>

\* a matched directory that is recorded only when there is a sink to tell
MatchDirIfListening ==
    /\ AtEntry
    /\ Entry.kind = "dir"
    /\ ~IsSkipped(EntryName)
    /\ IsPattern(EntryName)
    /\ onProgress # "throws"
    /\ progress' = Notify([verb |-> "Checking",
                           what |-> IF Top.depth = 0 THEN <<EntryName, "/">>
                                    ELSE RelativePath(tree, Entry.id)])
    /\ results' = IF onProgress = "undefined" THEN results
                  ELSE Append(results, ScanResult(tree, Entry.id))
    /\ stack' = NextEntry
    /\ UNCHANGED <<onProgress, tree, filter, pc>>
    /\ UNCHANGED selVars
    /\ UNCHANGED <<mainVars, fmtVars>>

\* if (PATTERNS[entry.name]) { ...; results.push(...); continue; }
MatchDir ==
    /\ AtEntry
    /\ Entry.kind = "dir"
    /\ ~IsSkipped(EntryName)
    /\ IsPattern(EntryName)
    /\ onProgress # "throws"
    /\ progress' = Notify([verb |-> "Checking",
                           what |-> IF Top.depth = 0 THEN <<EntryName, "/">>
                                    ELSE RelativePath(tree, Entry.id)])
    /\ results' = Append(results, ScanResult(tree, Entry.id))
    /\ stack' = NextEntry
    /\ UNCHANGED <<onProgress, tree, filter, pc>>
    /\ UNCHANGED selVars
    /\ UNCHANGED <<mainVars, fmtVars>>

\* await findArtifacts(fullPath, rootDir, results, onProgress, depth + 1)
Descend ==
    /\ AtEntry
    /\ Entry.kind = "dir"
    /\ ~IsSkipped(EntryName)
    /\ ~IsPattern(EntryName)
    /\ ~ (onProgress = "throws" /\ Top.depth = 0)
    /\ progress' = IF Top.depth = 0
                   THEN Notify([verb |-> "Scanning",
                                what |-> <<EntryName, "/">>])
                   ELSE progress
    /\ stack' = Append(NextEntry,
                       [dir |-> Entry.id, idx |-> 1, depth |-> Top.depth + 1])
    /\ UNCHANGED <<onProgress, tree, filter, pc, results>>
    /\ UNCHANGED selVars
    /\ UNCHANGED <<mainVars, fmtVars>>

\* onProgress throws: the exception leaves findArtifacts and scan, whose
\* promise is rejected
SinkThrows ==
    /\ AtEntry
    /\ Entry.kind = "dir"
    /\ ~IsSkipped(EntryName)
    /\ onProgress = "throws"
    /\ IsPattern(EntryName) \/ Top.depth = 0
    /\ progress' = Append(progress,
                     IF IsPattern(EntryName)
                     THEN [verb |-> "Checking",
                           what |-> IF Top.depth = 0 THEN <<EntryName, "/">>
                                    ELSE RelativePath(tree, Entry.id)]
                     ELSE [verb |-> "Scanning", what |-> <<EntryName, "/">>])
    /\ stack' = <<>>
    /\ pc' = "failed"
    /\ UNCHANGED <<onProgress, tree, filter, results>>
    /\ UNCHANGED selVars
    /\ UNCHANGED <<mainVars, fmtVars>>

\* the loop of a nested findArtifacts ends: back in the caller's loop
Return ==
    /\ pc = "scan"
    /\ Len(stack) > 1
    /\ Top.idx > Len(TopEntries)
    /\ stack' = SubSeq(stack, 1, Len(stack) - 1)
    /\ UNCHANGED <<onProgress, tree, filter, pc, results, progress>>
    /\ UNCHANGED selVars
    /\ UNCHANGED <<mainVars, fmtVars>>

\* findArtifacts(rootDir, ...) has returned: scan sorts, filters and returns
ScanReturn ==
    /\ pc = "scan"
    /\ Len(stack) = 1
    /\ Top.idx > Len(TopEntries)
    /\ results' = FilterMinSize(SortBySize(results))
    /\ stack' = <<>>
    /\ pc' = "scanned"
    /\ UNCHANGED <<onProgress, tree, filter, progress>>
    /\ UNCHANGED selVars
    /\ UNCHANGED <<mainVars, fmtVars>>

NextScan ==
    \/ SkipNonDir
    \/ SkipDir
    \/ MatchDir
    \/ Descend
    \/ Return
    \/ ScanReturn

\* no session of the selector
NoSession ==
    /\ items = <<>>
    /\ selected = <<>>
    /\ cursor = 0
    /\ scrollOffset = 0
    /\ rows = 0
    /\ rawMode = FALSE
    /\ listening = FALSE
    /\ session = "idle"
    /\ resolved = <<>>
    /\ keys = <<>>

\* main has deleted nothing and the process runs; no call of formatSize
NotRun ==
    /\ args = <<>>
    /\ rmCalls = <<>>
    /\ removed = {}
    /\ exitCode = "none"
    /\ bytes = 0
    /\ formatted = "none"

\* scan(rootDir, onProgress) has been called: findArtifacts(rootDir, rootDir,
\* results, onProgress, 0) is at its first entry
ScanCalled ==
    /\ pc = "scan"
    /\ stack = <<[dir |-> 0, idx |-> 1, depth |-> 0]>>
    /\ results = <<>>
    /\ progress = <<>>

InitScan ==
    /\ \/ \E n \in 1..MaxDirs :
            \E p \in ParentMaps(n), nm \in [1..n -> DirNames],
               fl \in [1..n -> FileChoices] :
                /\ SiblingsDiffer(p, nm)
                /\ tree = [parent |-> p, name |-> nm,
                           files |-> [d \in 0..n |->
                                        IF d = 0 THEN RootFiles ELSE fl[d]],
                           denied |-> {}]
       \/ tree \in ScenarioTrees
    /\ filter = NoFilter
    /\ ScanCalled
    /\ onProgress = "returns"
    /\ NoSession
    /\ NotRun

SpecScan == InitScan /\ [][NextScan]_vars

\* main has parsed --only <category> or --exclude <category> and calls
\* scan(targetDir, onProgress, filter)
Filters ==
    { [mode |-> m, cats |-> {c}] :
        m \in {"only", "exclude"}, c \in {"node", "build", "rust"} }

InitFilter ==
    /\ \/ \E n \in 1..(MaxDirs - 1) :
            \E p \in ParentMaps(n), nm \in [1..n -> DirNames],
               fl \in [1..n -> FileChoices] :
                /\ SiblingsDiffer(p, nm)
                /\ tree = [parent |-> p, name |-> nm,
                           files |-> [d \in 0..n |->
                                        IF d = 0 THEN RootFiles ELSE fl[d]],
                           denied |-> {}]
       \/ tree \in ScenarioTrees
    /\ filter \in Filters
    /\ ScanCalled
    /\ onProgress = "returns"
    /\ NoSession
    /\ NotRun

SpecFilter == InitFilter /\ [][NextScan]_vars

\* the second argument of scan: left out, a function that returns, or a
\* function that throws
SinkChoices == {"undefined", "returns", "throws"}

NextSink ==
    \/ SkipNonDir
    \/ SkipDir
    \/ MatchDir
    \/ Descend
    \/ SinkThrows
    \/ Return
    \/ ScanReturn

\* scan(rootDir) and scan(rootDir, onProgress) over the same trees
InitSink ==
    /\ \/ \E n \in 1..(MaxDirs - 1) :
            \E p \in ParentMaps(n), nm \in [1..n -> DirNames],
               fl \in [1..n -> FileChoices] :
                /\ SiblingsDiffer(p, nm)
                /\ tree = [parent |-> p, name |-> nm,
                           files |-> [d \in 0..n |->
                                        IF d = 0 THEN RootFiles ELSE fl[d]],
                           denied |-> {}]
       \/ tree \in ScenarioTrees
    /\ filter = NoFilter
    /\ pc = "scan"
    /\ stack = <<[dir |-> 0, idx |-> 1, depth |-> 0]>>
    /\ results = <<>>
    /\ progress = <<>>
    /\ onProgress \in SinkChoices
    /\ NoSession
    /\ NotRun

SpecSink == InitSink /\ [][NextSink]_vars

\* parseDuration(val) for val = "<n><unit>", in milliseconds
ParseDuration(n, unit) ==
    CASE unit = "d" -> n * 86400000
      [] unit = "w" -> n * 7 * 86400000
      [] unit = "m" -> n * 30 * 86400000

\* --stale 1d, --stale 14d, --stale 2w
Durations == {<<1, "d">>, <<14, "d">>, <<2, "w">>}

\* how long ago the files of a directory were last modified: just now, a
\* day, two weeks
AgeChoices == {0, 86400000, 1209600000}

StaleDirNames == {"node_modules", ".git", "src"}

\* main has parsed --stale <duration> and calls
\* scan(targetDir, onProgress, { staleMs })
InitStale ==
    /\ \E n \in 1..(MaxDirs - 1) :
         \E p \in ParentMaps(n), nm \in [1..n -> StaleDirNames],
            ag \in [0..n -> AgeChoices] :
             /\ SiblingsDiffer(p, nm)
             /\ tree = [parent |-> p, name |-> nm,
                        files |-> [d \in 0..n |->
                                     IF d = 0 THEN RootFiles
                                     ELSE <<File(102400)>>],
                        denied |-> {},
                        age |-> ag]
    /\ \E dur \in Durations :
         filter = [mode |-> "none", cats |-> {},
                   staleMs |-> ParseDuration(dur[1], dur[2])]
    /\ ScanCalled
    /\ onProgress = "returns"
    /\ NoSession
    /\ NotRun

SpecStale == InitStale /\ [][NextScan]_vars

\* what a directory holds when some stat fails
FaultyFileChoices ==
    { <<File(102400)>>,
      <<File(102400), BrokenLink, File(7)>>,
      <<BrokenLink, File(102400)>> }

FaultyDirNames == {"node_modules", ".git", "src"}

\* <rootDir>/{src (unreadable)/node_modules, lib/node_modules, node_modules}
DeniedSiblingTree ==
    [parent |-> <<0, 0, 0, 1, 2>>,
     name |-> <<"src", "lib", "node_modules", "node_modules", "node_modules">>,
     files |-> [d \in 0..5 |->
                 CASE d = 3 -> <<File(1048576), BrokenLink, File(1048576)>>
                   [] d = 4 -> <<File(204800)>>
                   [] d = 5 -> <<File(307200)>>
                   [] OTHER -> <<File(11)>>],
     denied |-> {1}]

\* scan over a tree in which any set of directories cannot be listed and
\* some entries cannot be statted
InitFaults ==
    /\ \/ \E n \in 1..(MaxDirs - 1) :
            \E p \in ParentMaps(n), nm \in [1..n -> FaultyDirNames],
               fl \in [1..n -> FaultyFileChoices], dn \in SUBSET (0..n) :
                /\ SiblingsDiffer(p, nm)
                /\ tree = [parent |-> p, name |-> nm,
                           files |-> [d \in 0..n |->
                                        IF d = 0 THEN RootFiles ELSE fl[d]],
                           denied |-> dn]
       \/ tree = DeniedSiblingTree
    /\ filter = NoFilter
    /\ ScanCalled
    /\ onProgress = "returns"
    /\ NoSession
    /\ NotRun

SpecFaults == InitFaults /\ [][NextScan]_vars

----------------------------------------------------------------------------
(* ui.ts: selectItems *)

Max(a, b) == IF a >= b THEN a ELSE b
Min(a, b) == IF a <= b THEN a ELSE b

\* the i-th record of a list of n: distinct paths, sizes largest first;
\* lastModified is what render reads from the record
Item(i, n, lm) ==
    [path |-> <<RootDir>> \o [k \in 1..i |-> "pkg"] \o <<"node_modules">>,
     relativePath |-> [k \in 1..i |-> "pkg"] \o <<"node_modules">>,
     size |-> MIN_SIZE * (n + 1 - i),
     fileCount |-> 10 * i,
     description |-> PATTERNS["node_modules"],
     lastModified |-> lm]

\* process.stdout.rows: undefined (0), or a terminal of that many rows
RowChoices == {0, 10, 20}

\* getViewportHeight()
ViewportHeight(r) == Max(5, (IF r = 0 THEN 24 ELSE r) - 14)

\* formatAge(i.lastModified) calls date.getTime(): a TypeError on undefined,
\* which is also what a record without the field gives
RenderThrows(its) ==
    \E i \in 1..Len(its) :
        \/ ~("lastModified" \in DOMAIN its[i])
        \/ its[i].lastModified = "undefined"

\* a render that scrolls up only
RenderScrollsUpOnly(cur, off, r) == IF cur < off THEN cur ELSE off

\* render(), "ensure cursor is visible": the scrollOffset it leaves
Render(cur, off, r) ==
    LET up == IF cur < off THEN cur ELSE off
    IN  IF cur >= up + ViewportHeight(r)
        THEN cur - ViewportHeight(r) + 1
        ELSE up

\* new Array(items.length).fill(false)
NoneSelected(n) == [i \in 1..n |-> FALSE]

\* a session that starts with nothing selected
StartsUnselected(n) == [i \in 1..n |-> FALSE]

\* new Array(items.length).fill(true)
AllSelected(n) == [i \in 1..n |-> TRUE]

\* the cursor moves up without a floor
CursorUpUnclamped(c) == c - 1

\* Math.max(0, cursor - 1)
CursorUp(c) == Max(0, c - 1)

\* the cursor moves down without a ceiling
CursorDownUnclamped(c, n) == c + 1

\* Math.min(items.length - 1, cursor + 1)
CursorDown(c, n) == Min(n - 1, c + 1)

\* a toggle of the first flag, wherever the cursor is
ToggleFirst(sel, c) == [sel EXCEPT ![1] = ~ @]

\* selected[cursor] = !selected[cursor]
Toggle(sel, c) == [sel EXCEPT ![c + 1] = ~ @]

\* everything but the selection
Unselected(its, sel) ==
    LET RECURSIVE From(_)
        From(i) == IF i > Len(its) THEN <<>>
                   ELSE IF ~ sel[i] THEN <<its[i]>> \o From(i + 1)
                   ELSE From(i + 1)
    IN  From(1)

\* items.filter((_, i) => selected[i])
Confirmed(its, sel) ==
    LET RECURSIVE From(_)
        From(i) == IF i > Len(its) THEN <<>>
                   ELSE IF sel[i] THEN <<its[i]>> \o From(i + 1)
                   ELSE From(i + 1)
    IN  From(1)

\* quit hands back what is selected
QuitKeepsSelection(its, sel) == Confirmed(its, sel)

\* resolve([])
Quit(its, sel) == <<>>

\* the keys the listener was called with: the last two while the session
\* waits, and with them the key that ended it
Remember(key) ==
    IF Len(keys) < 2 THEN Append(keys, key) ELSE <<keys[2], key>>

\* a cleanup that leaves the 'data' listener on stdin
CleanupKeepsListener ==
    /\ rawMode' = FALSE
    /\ listening' = listening

\* cleanup()
Cleanup ==
    /\ rawMode' = FALSE
    /\ listening' = FALSE

\* stdin calls the 'data' listener with key, which it does for as long as
\* the listener is attached, and the handler does not return early
Handling(key) ==
    /\ pc = "select"
    /\ listening
    /\ keys' = Remember(key)

\* stdin calls the 'data' listener with key, and the handler takes a branch
\* that ends the session
Ending(key) ==
    /\ pc = "select"
    /\ listening
    /\ keys' = IF Len(keys) < 3 THEN Append(keys, key)
               ELSE <<keys[2], keys[3], key>>

\* selectItems(items, rootDir): the promise executor up to stdin.on('data')
SelectItems ==
    /\ pc = "select"
    /\ session = "idle"
    /\ selected' = AllSelected(Len(items))
    /\ cursor' = 0
    /\ rawMode' = TRUE
    /\ IF RenderThrows(items)
       THEN /\ session' = "rejected"
            /\ UNCHANGED <<scrollOffset, listening>>
       ELSE /\ scrollOffset' = Render(0, 0, rows)
            /\ listening' = TRUE
            /\ session' = "waiting"
    /\ UNCHANGED <<items, rows, resolved, keys>>
    /\ UNCHANGED scanVars
    /\ UNCHANGED <<mainVars, fmtVars>>

\* the terminal is resized while the session waits for a key
Resize ==
    /\ pc = "select"
    /\ session = "waiting"
    /\ \E r \in RowChoices : r # rows /\ rows' = r
    /\ UNCHANGED <<items, selected, cursor, scrollOffset, rawMode, listening,
                   session, resolved, keys>>
    /\ UNCHANGED scanVars
    /\ UNCHANGED <<mainVars, fmtVars>>

\* an interrupt that exits with the terminal left as it is
KeyInterruptRaw ==
    /\ Ending("^C")
    /\ session' = "exited"
    /\ exitCode' = "0"
    /\ UNCHANGED <<items, selected, cursor, scrollOffset, rows, resolved,
                   rawMode, listening>>
    /\ UNCHANGED scanVars
    /\ UNCHANGED <<args, rmCalls, removed, fmtVars>>

\* key === '\x03'
KeyInterrupt ==
    /\ Ending("^C")
    /\ Cleanup
    /\ session' = "exited"
    /\ exitCode' = "0"
    /\ UNCHANGED <<items, selected, cursor, scrollOffset, rows, resolved>>
    /\ UNCHANGED scanVars
    /\ UNCHANGED <<args, rmCalls, removed, fmtVars>>

\* key === 'q'
KeyQuit ==
    /\ Ending("q")
    /\ Cleanup
    /\ resolved' = Quit(items, selected)
    /\ session' = "resolved"
    /\ UNCHANGED <<items, selected, cursor, scrollOffset, rows>>
    /\ UNCHANGED scanVars
    /\ UNCHANGED <<mainVars, fmtVars>>

\* key === '\x1b[A' || key === 'k'
KeyUp ==
    /\ \E key \in {"up", "k"} : Handling(key)
    /\ cursor' = CursorUp(cursor)
    /\ scrollOffset' = Render(cursor', scrollOffset, rows)
    /\ UNCHANGED <<items, selected, rows, rawMode, listening, session,
                   resolved>>
    /\ UNCHANGED scanVars
    /\ UNCHANGED <<mainVars, fmtVars>>

\* key === '\x1b[B' || key === 'j'
KeyDown ==
    /\ \E key \in {"down", "j"} : Handling(key)
    /\ cursor' = CursorDown(cursor, Len(items))
    /\ scrollOffset' = Render(cursor', scrollOffset, rows)
    /\ UNCHANGED <<items, selected, rows, rawMode, listening, session,
                   resolved>>
    /\ UNCHANGED scanVars
    /\ UNCHANGED <<mainVars, fmtVars>>

\* key === ' '
KeyToggle ==
    /\ Handling(" ")
    /\ selected' = Toggle(selected, cursor)
    /\ scrollOffset' = Render(cursor, scrollOffset, rows)
    /\ UNCHANGED <<items, cursor, rows, rawMode, listening, session,
                   resolved>>
    /\ UNCHANGED scanVars
    /\ UNCHANGED <<mainVars, fmtVars>>

\* key === 'a'
KeyAll ==
    /\ Handling("a")
    /\ selected' = AllSelected(Len(selected))
    /\ scrollOffset' = Render(cursor, scrollOffset, rows)
    /\ UNCHANGED <<items, cursor, rows, rawMode, listening, session,
                   resolved>>
    /\ UNCHANGED scanVars
    /\ UNCHANGED <<mainVars, fmtVars>>

\* key === 'n'
KeyNone ==
    /\ Handling("n")
    /\ selected' = NoneSelected(Len(selected))
    /\ scrollOffset' = Render(cursor, scrollOffset, rows)
    /\ UNCHANGED <<items, cursor, rows, rawMode, listening, session,
                   resolved>>
    /\ UNCHANGED scanVars
    /\ UNCHANGED <<mainVars, fmtVars>>

\* key === '\r'
KeyConfirm ==
    /\ Ending("enter")
    /\ Cleanup
    /\ resolved' = Confirmed(items, selected)
    /\ session' = "resolved"
    /\ UNCHANGED <<items, selected, cursor, scrollOffset, rows>>
    /\ UNCHANGED scanVars
    /\ UNCHANGED <<mainVars, fmtVars>>

\* another key taken for the toggle key
KeyOtherToggles ==
    /\ Handling("other")
    /\ selected' = Toggle(selected, cursor)
    /\ scrollOffset' = Render(cursor, scrollOffset, rows)
    /\ UNCHANGED <<items, cursor, rows, rawMode, listening, session,
                   resolved>>
    /\ UNCHANGED scanVars
    /\ UNCHANGED <<mainVars, fmtVars>>

\* any other chunk of input: no branch is taken, render() runs
KeyOther ==
    /\ Handling("other")
    /\ scrollOffset' = Render(cursor, scrollOffset, rows)
    /\ UNCHANGED <<items, selected, cursor, rows, rawMode, listening, session,
                   resolved>>
    /\ UNCHANGED scanVars
    /\ UNCHANGED <<mainVars, fmtVars>>

NextSel ==
    \/ SelectItems
    \/ Resize
    \/ KeyInterrupt
    \/ KeyQuit
    \/ KeyUp
    \/ KeyDown
    \/ KeyToggle
    \/ KeyAll
    \/ KeyNone
    \/ KeyConfirm
    \/ KeyOther

\* selectItems is about to be called with a list of 1..MaxItems records
InitSel ==
    /\ pc = "select"
    /\ tree = [parent |-> <<>>, name |-> <<>>, files |-> <<>>, denied |-> {}]
    /\ filter = NoFilter
    /\ stack = <<>>
    /\ results = <<>>
    /\ progress = <<>>
    /\ onProgress = "returns"
    /\ \E n \in 1..MaxItems :
         \E lm \in [1..n -> {"Date", "undefined"}] :
            items = [i \in 1..n |-> Item(i, n, lm[i])]
    /\ selected = <<>>
    /\ cursor = 0
    /\ scrollOffset = 0
    /\ rows \in RowChoices
    /\ rawMode = FALSE
    /\ listening = FALSE
    /\ session = "idle"
    /\ resolved = <<>>
    /\ keys = <<>>
    /\ NotRun

SpecSel == InitSel /\ [][NextSel]_vars

----------------------------------------------------------------------------
(* ui.ts: formatSize *)

\* the largest multiple of a unit among the sizes formatted
MaxMultiple == 5

\* 1, 1024, 1024 * 1024, 1024 * 1024 * 1024
Units == {1, 1024, 1048576, 1073741824}

\* where a size lies between two multiples of unit u
Offsets(u) ==
    <<0, 1, u \div 4 - 1, u \div 4, u \div 2 - 1, u \div 2, u - 1>>

\* sizes at, next to and between the multiples of the units, below 2^31
ByteInputs ==
    { t[1] * t[2] + Offsets(t[2])[t[3]] :
        t \in { t \in (0..MaxMultiple) \X Units \X (1..7) :
                  /\ t[1] * ((t[2] + 1023) \div 1024) < 2097152
                  /\ Offsets(t[2])[t[3]] >= 0
                  /\ Offsets(t[2])[t[3]] < t[2] } }

\* x.toFixed(0) for x = b / u: the nearest integer, the larger one on a tie
ToFixed0(b, u) == (b + u \div 2) \div u

\* x.toFixed(1) for x = b / u, as the number of tenths: the nearest, the
\* larger one on a tie (u a multiple of 1024; no product exceeds 2^31)
ToFixed1(b, u) ==
    LET q == b \div u
        r == b % u
        v == u \div 1024
        r1 == r \div 1024
        r0 == r % 1024
    IN  10 * q + (10 * r1 + v \div 2 + (10 * r0) \div 1024) \div v

\* the text "<int> <unit>" or "<int>.<frac> <unit>"
Text(int, frac, unit) == [int |-> int, frac |-> frac, unit |-> unit]

\* formatSize with the boundaries counted to the smaller unit
formatSizeInclusive(b) ==
    IF b <= 1024 THEN Text(b, <<>>, "B")
    ELSE IF b <= 1024 * 1024 THEN Text(ToFixed0(b, 1024), <<>>, "KB")
    ELSE IF b <= 1024 * 1024 * 1024
         THEN Text(ToFixed1(b, 1048576) \div 10,
                   <<ToFixed1(b, 1048576) % 10>>, "MB")
    ELSE Text(ToFixed1(b, 1073741824) \div 10,
              <<ToFixed1(b, 1073741824) % 10>>, "GB")

\* formatSize(bytes)
formatSize(b) ==
    IF b < 1024 THEN Text(b, <<>>, "B")
    ELSE IF b < 1024 * 1024 THEN Text(ToFixed0(b, 1024), <<>>, "KB")
    ELSE IF b < 1024 * 1024 * 1024
         THEN Text(ToFixed1(b, 1048576) \div 10,
                   <<ToFixed1(b, 1048576) % 10>>, "MB")
    ELSE Text(ToFixed1(b, 1073741824) \div 10,
              <<ToFixed1(b, 1073741824) % 10>>, "GB")

\* a call of formatSize(bytes) returns
FormatSize ==
    /\ pc = "format"
    /\ formatted' = formatSize(bytes)
    /\ pc' = "formatted"
    /\ UNCHANGED <<onProgress, tree, filter, stack, results, progress, bytes>>
    /\ UNCHANGED selVars
    /\ UNCHANGED mainVars

NextFormat ==
    \/ FormatSize

InitFormat ==
    /\ pc = "format"
    /\ tree = [parent |-> <<>>, name |-> <<>>, files |-> <<>>, denied |-> {}]
    /\ filter = NoFilter
    /\ stack = <<>>
    /\ results = <<>>
    /\ progress = <<>>
    /\ onProgress = "returns"
    /\ NoSession
    /\ args = <<>>
    /\ rmCalls = <<>>
    /\ removed = {}
    /\ exitCode = "none"
    /\ bytes \in ByteInputs
    /\ formatted = "none"

SpecFormat == InitFormat /\ [][NextFormat]_vars

----------------------------------------------------------------------------
(* index.ts: main, from the call of selectItems to the end of the run *)

\* the longest list main hands to selectItems
MaxRunItems == 3

\* every record of the list, selected or not
ToDeleteAll(its, res) == its

\* const toDelete = await selectItems(results, targetDir)
ToDelete(its, res) == res

\* if (toDelete.length === 0) { ...; process.exit(0); }
NothingSelected ==
    /\ pc = "select"
    /\ session = "resolved"
    /\ Len(ToDelete(items, resolved)) = 0
    /\ pc' = "done"
    /\ exitCode' = "0"
    /\ UNCHANGED <<onProgress, tree, filter, stack, results, progress>>
    /\ UNCHANGED selVars
    /\ UNCHANGED <<args, rmCalls, removed, fmtVars>>

\* for (const item of toDelete): await rm(item.path, { recursive: true,
\* force: true }), which removes the directory or throws
Remove ==
    /\ \/ pc = "select" /\ session = "resolved"
       \/ pc = "delete"
    /\ Len(rmCalls) < Len(ToDelete(items, resolved))
    /\ LET item == ToDelete(items, resolved)[Len(rmCalls) + 1]
       IN  /\ rmCalls' = Append(rmCalls, item.path)
           /\ \E ok \in BOOLEAN :
                 removed' = IF ok THEN removed \cup {item.path} ELSE removed
    /\ pc' = "delete"
    /\ UNCHANGED <<onProgress, tree, filter, stack, results, progress>>
    /\ UNCHANGED selVars
    /\ UNCHANGED <<args, exitCode, fmtVars>>

\* the loop is over: the summary is printed and main returns
Done ==
    /\ pc = "delete"
    /\ Len(rmCalls) = Len(ToDelete(items, resolved))
    /\ pc' = "done"
    /\ exitCode' = "0"
    /\ UNCHANGED <<onProgress, tree, filter, stack, results, progress>>
    /\ UNCHANGED selVars
    /\ UNCHANGED <<args, rmCalls, removed, fmtVars>>

\* main().catch((err) => { console.error(...); process.exit(1); })
Fatal ==
    /\ pc = "select"
    /\ session = "rejected"
    /\ pc' = "done"
    /\ exitCode' = "1"
    /\ UNCHANGED <<onProgress, tree, filter, stack, results, progress>>
    /\ UNCHANGED selVars
    /\ UNCHANGED <<args, rmCalls, removed, fmtVars>>

NextRun ==
    \/ SelectItems
    \/ Resize
    \/ KeyInterrupt
    \/ KeyQuit
    \/ KeyUp
    \/ KeyDown
    \/ KeyToggle
    \/ KeyAll
    \/ KeyNone
    \/ KeyConfirm
    \/ KeyOther
    \/ NothingSelected
    \/ Remove
    \/ Done
    \/ Fatal

\* main has a non-empty list of results and calls selectItems
InitRun ==
    /\ pc = "select"
    /\ tree = [parent |-> <<>>, name |-> <<>>, files |-> <<>>, denied |-> {}]
    /\ filter = NoFilter
    /\ stack = <<>>
    /\ results = <<>>
    /\ progress = <<>>
    /\ onProgress = "returns"
    /\ \E n \in 1..MaxRunItems :
         \E lm \in [1..n -> {"Date", "undefined"}] :
            items = [i \in 1..n |-> Item(i, n, lm[i])]
    /\ selected = <<>>
    /\ cursor = 0
    /\ scrollOffset = 0
    /\ rows \in RowChoices
    /\ rawMode = FALSE
    /\ listening = FALSE
    /\ session = "idle"
    /\ resolved = <<>>
    /\ keys = <<>>
    /\ NotRun

SpecRun == InitRun /\ [][NextRun]_vars

----------------------------------------------------------------------------
(* ui.ts and index.ts: keys typed after the session has resolved *)

\* the keys a user types, Ctrl+C aside
TypedKeys == {"q", "up", "down", " ", "a", "n", "enter", "other"}

\* a key is typed once selectItems has resolved, while main goes on: stdin
\* has no 'data' listener, so no handler is called
LateKey ==
    /\ pc \in {"select", "delete"}
    /\ session = "resolved"
    /\ ~listening
    /\ \E key \in TypedKeys : keys' = Remember(key)
    /\ UNCHANGED <<items, selected, cursor, scrollOffset, rows, rawMode,
                   listening, session, resolved>>
    /\ UNCHANGED scanVars
    /\ UNCHANGED <<mainVars, fmtVars>>

NextInert ==
    \/ SelectItems
    \/ Resize
    \/ KeyInterrupt
    \/ KeyQuit
    \/ KeyUp
    \/ KeyDown
    \/ KeyToggle
    \/ KeyAll
    \/ KeyNone
    \/ KeyConfirm
    \/ KeyOther
    \/ LateKey
    \/ NothingSelected
    \/ Remove
    \/ Done
    \/ Fatal

SpecInert == InitRun /\ [][NextInert]_vars

----------------------------------------------------------------------------
(* index.ts: main, from the command line to the call of scan *)

\* the longest command line
MaxArgs == 4

\* an argument that starts with "--", and one that does not, as the parts
\* val.split(',') gives
Flag(name) == [flag |-> name, parts |-> <<>>]
Word(parts) == [flag |-> "", parts |-> parts]

ArgTokens ==
    { Flag("--only"), Flag("--exclude"), Flag("--verbose"),
      Word(<<"node">>), Word(<<"build", "rust">>), Word(<<"node", "bogus">>),
      Word(<<"proj">>) }

\* command lines without -h, --help and --list-categories
ArgLists == UNION { [1..n -> ArgTokens] : n \in 0..MaxArgs }

\* args.indexOf(name), 0 standing for -1
IndexOfArg(a, name) ==
    IF \E i \in 1..Len(a) : a[i].flag = name
    THEN CHOOSE i \in 1..Len(a) :
           /\ a[i].flag = name
           /\ \A j \in 1..(i - 1) : a[j].flag # name
    ELSE 0

\* !val || val.startsWith('--'), for val = args[idx + 1]
NoValue(a, idx) == idx + 1 > Len(a) \/ a[idx + 1].flag # ""

\* new Set(Object.keys(getCategories()))
ValidCategories == DOMAIN Categories

\* some cat of cats fails validCategories.has(cat)
HasUnknown(cats) == \E k \in 1..Len(cats) : ~ (cats[k] \in ValidCategories)

\* the ScanFilter objects main builds, and undefined
ScanFilter(hasOnly, only, hasExclude, exclude) ==
    [hasOnly |-> hasOnly, only |-> only,
     hasExclude |-> hasExclude, exclude |-> exclude]

Undefined == ScanFilter(FALSE, <<>>, FALSE, <<>>)

\* process.exit(1), or the filter to go on with
Exit1 == [ok |-> FALSE, filter |-> Undefined]
GoOn(f) == [ok |-> TRUE, filter |-> f]

\* a parse that takes both flags when both are given
ParseFilterBoth(a) ==
    LET onlyIdx == IndexOfArg(a, "--only")
        excludeIdx == IndexOfArg(a, "--exclude")
        only == IF onlyIdx = 0 \/ NoValue(a, onlyIdx) THEN <<>>
                ELSE a[onlyIdx + 1].parts
        exclude == IF excludeIdx = 0 \/ NoValue(a, excludeIdx) THEN <<>>
                   ELSE a[excludeIdx + 1].parts
    IN  IF \/ onlyIdx # 0 /\ (NoValue(a, onlyIdx) \/ HasUnknown(only))
           \/ excludeIdx # 0
                /\ (NoValue(a, excludeIdx) \/ HasUnknown(exclude))
        THEN Exit1
        ELSE GoOn(ScanFilter(onlyIdx # 0, only, excludeIdx # 0, exclude))

\* main, "parse --only and --exclude"
ParseFilter(a) ==
    LET onlyIdx == IndexOfArg(a, "--only")
        excludeIdx == IndexOfArg(a, "--exclude")
        afterOnly ==
            IF onlyIdx = 0 THEN GoOn(Undefined)
            ELSE IF NoValue(a, onlyIdx) THEN Exit1
            ELSE IF HasUnknown(a[onlyIdx + 1].parts) THEN Exit1
            ELSE GoOn(ScanFilter(TRUE, a[onlyIdx + 1].parts, FALSE, <<>>))
    IN  IF onlyIdx # 0 /\ excludeIdx # 0 THEN Exit1
        ELSE IF ~afterOnly.ok THEN Exit1
        ELSE IF excludeIdx = 0 THEN afterOnly
        ELSE IF NoValue(a, excludeIdx) THEN Exit1
        ELSE IF HasUnknown(a[excludeIdx + 1].parts) THEN Exit1
        ELSE GoOn(ScanFilter(FALSE, <<>>, TRUE, a[excludeIdx + 1].parts))

\* main up to the call of scan: the filter is built, the directory argument
\* checked (it is a directory or it is not), and scan is called
ParseArgs ==
    /\ pc = "args"
    /\ \E isDirectory \in BOOLEAN :
         IF ParseFilter(args).ok /\ isDirectory
         THEN /\ filter' = ParseFilter(args).filter
              /\ stack' = <<[dir |-> 0, idx |-> 1, depth |-> 0]>>
              /\ pc' = "scan"
              /\ UNCHANGED exitCode
         ELSE /\ pc' = "done"
              /\ exitCode' = "1"
              /\ UNCHANGED <<filter, stack>>
    /\ UNCHANGED <<onProgress, tree, results, progress>>
    /\ UNCHANGED selVars
    /\ UNCHANGED <<args, rmCalls, removed, fmtVars>>

NextArgs ==
    \/ ParseArgs
    \/ SkipNonDir
    \/ SkipDir
    \/ MatchDir
    \/ Descend
    \/ Return
    \/ ScanReturn

\* main is started with a command line, in a directory that holds a file
\* beside its subdirectories
InitArgs ==
    /\ pc = "args"
    /\ tree \in {[t EXCEPT !.files[0] = RootFiles] : t \in ScenarioTrees}
    /\ filter = Undefined
    /\ stack = <<>>
    /\ results = <<>>
    /\ progress = <<>>
    /\ onProgress = "returns"
    /\ NoSession
    /\ args \in ArgLists
    /\ rmCalls = <<>>
    /\ removed = {}
    /\ exitCode = "none"
    /\ bytes = 0
    /\ formatted = "none"

SpecArgs == InitArgs /\ [][NextArgs]_vars

----------------------------------------------------------------------------
(* index.ts: main, from the call of scan to the first render of the selector *)

\* if (results.length === 0) { ...'All clean'...; process.exit(0); }
AllClean ==
    /\ pc = "scanned"
    /\ Len(results) = 0
    /\ pc' = "done"
    /\ exitCode' = "0"
    /\ UNCHANGED <<onProgress, tree, filter, stack, results, progress>>
    /\ UNCHANGED selVars
    /\ UNCHANGED <<args, rmCalls, removed, fmtVars>>

\* a main that calls selectItems with whatever scan returned
StartSelectorAlways ==
    /\ pc = "scanned"
    /\ items' = results
    /\ \E r \in RowChoices : rows' = r
    /\ pc' = "select"
    /\ UNCHANGED <<selected, cursor, scrollOffset, rawMode, listening,
                   session, resolved, keys>>
    /\ UNCHANGED <<onProgress, tree, filter, stack, results, progress>>
    /\ UNCHANGED <<mainVars, fmtVars>>

\* selectItems(results, targetDir) is called, on a terminal of some height
StartSelector ==
    /\ pc = "scanned"
    /\ Len(results) # 0
    /\ items' = results
    /\ \E r \in RowChoices : rows' = r
    /\ pc' = "select"
    /\ UNCHANGED <<selected, cursor, scrollOffset, rawMode, listening,
                   session, resolved, keys>>
    /\ UNCHANGED <<onProgress, tree, filter, stack, results, progress>>
    /\ UNCHANGED <<mainVars, fmtVars>>

NextMain ==
    \/ SkipNonDir
    \/ SkipDir
    \/ MatchDir
    \/ Descend
    \/ Return
    \/ ScanReturn
    \/ AllClean
    \/ StartSelector
    \/ SelectItems
    \/ Fatal

\* main calls scan(targetDir, (msg) => { spinnerMsg = msg; })
InitMain ==
    /\ \/ \E n \in 1..(MaxDirs - 1) :
            \E p \in ParentMaps(n), nm \in [1..n -> DirNames],
               fl \in [1..n -> FileChoices] :
                /\ SiblingsDiffer(p, nm)
                /\ tree = [parent |-> p, name |-> nm,
                           files |-> [d \in 0..n |->
                                        IF d = 0 THEN RootFiles ELSE fl[d]],
                           denied |-> {}]
       \/ tree \in ScenarioTrees
    /\ filter = NoFilter
    /\ pc = "scan"
    /\ stack = <<[dir |-> 0, idx |-> 1, depth |-> 0]>>
    /\ results = <<>>
    /\ progress = <<>>
    /\ onProgress = "returns"
    /\ NoSession
    /\ NotRun

SpecMain == InitMain /\ [][NextMain]_vars

----------------------------------------------------------------------------
(* Properties of scan *)

Scanned == pc = "scanned"

Basename(r) == r.path[Len(r.path)]

\* p is a proper prefix of q: q lies below p
Below(q, p) == Len(p) < Len(q) /\ SubSeq(q, 1, Len(p)) = p

Indices(s) == 1..Len(s)

\* the walk reaches directory d: no directory above it is skipped, matched
\* or unreadable
RECURSIVE Walked(_)
Walked(d) ==
    \/ tree.parent[d] = 0 /\ ~ (0 \in tree.denied)
    \/ /\ tree.parent[d] # 0
       /\ Walked(tree.parent[d])
       /\ ~ (tree.parent[d] \in tree.denied)
       /\ ~ (tree.name[tree.parent[d]] \in SKIP_DIRS)
       /\ ~ IsPattern(tree.name[tree.parent[d]])

\* the walk matches directory d as an artifact
Matched(d) ==
    /\ Walked(d)
    /\ ~ (tree.name[d] \in SKIP_DIRS)
    /\ IsPattern(tree.name[d])

\* C1: no returned record lies below another returned record, and no
\* activation of findArtifacts ever runs in or below a recorded directory
NonNesting ==
    /\ \A i, j \in Indices(results) :
          ~ Below(results[i].path, results[j].path)
    /\ \A k \in Indices(stack), i \in Indices(results) :
          /\ FullPath(tree, stack[k].dir) # results[i].path
          /\ ~ Below(FullPath(tree, stack[k].dir), results[i].path)

\* an artifact above the threshold lies inside a returned artifact
NestedArtifactLeftOut ==
    /\ Scanned
    /\ \E d \in DirsOf(tree) :
          /\ tree.parent[d] # 0
          /\ Matched(tree.parent[d])
          /\ IsPattern(tree.name[d])
          /\ GetDirStats(tree, d).size >= MIN_SIZE
          /\ \E i \in Indices(results) :
                results[i].path = FullPath(tree, tree.parent[d])

SortedBySize ==
    Scanned =>
      /\ \A i, j \in Indices(results) :
            i < j => results[i].size >= results[j].size
      /\ tree = SiblingTree =>
            /\ Len(results) = 2
            /\ results[1].relativePath = <<"b", "node_modules">>
            /\ results[1].size = 3145728
            /\ results[2].relativePath = <<"a", "node_modules">>
            /\ results[2].size = 1048576

\* the 1 MB artifact is found first and returned second
SiblingsReordered ==
    /\ Scanned
    /\ tree = SiblingTree
    /\ progress[Len(progress)].what = <<"b", "node_modules">>
    /\ results[1].size = 3145728
    /\ results[2].size = 1048576

\* C4: under {only: ["node"]} every returned record's basename is one of the
\* "node" category
OnlyNodeReturnsNode ==
    (Scanned /\ filter = [mode |-> "only", cats |-> {"node"}]) =>
       \A i \in Indices(results) : Basename(results[i]) \in CategoryOf({"node"})

\* C5: under {exclude: ["build"]} no returned record's basename is one of the
\* "build" category, and the matched directories of 102400 bytes or more of
\* every other category are returned
ExcludeBuildReturnsNoBuild ==
    (Scanned /\ filter = [mode |-> "exclude", cats |-> {"build"}]) =>
       /\ \A i \in Indices(results) :
             ~ (Basename(results[i]) \in CategoryOf({"build"}))
       /\ \A d \in DirsOf(tree) :
             ( /\ Matched(d)
               /\ ~ (tree.name[d] \in CategoryOf({"build"}))
               /\ GetDirStats(tree, d).size >= 102400 ) =>
                 \E i \in Indices(results) : results[i].path = FullPath(tree, d)

\* C6: no record is a .git directory or lies below one, findArtifacts never
\* runs in or below a .git directory, and the project tree (node_modules 5 MB,
\* dist 50 KB, .git) yields the single record node_modules
GitNeverScanned ==
    /\ \A i \in Indices(results) :
          \A k \in Indices(results[i].path) : results[i].path[k] # ".git"
    /\ \A k \in Indices(stack) :
          \A m \in Indices(FullPath(tree, stack[k].dir)) :
             FullPath(tree, stack[k].dir)[m] # ".git"
    /\ (Scanned /\ tree = ProjectTree) =>
          /\ Len(results) = 1
          /\ results[1].relativePath = <<"project", "node_modules">>
          /\ results[1].size = 5242880

\* the project tree is scanned: its .git holds a build directory of 200 KB
GitArtifactLeftOut ==
    /\ Scanned
    /\ tree = ProjectTree
    /\ Len(results) = 1
    /\ \E d \in DirsOf(tree) :
          /\ tree.parent[d] # 0
          /\ tree.name[tree.parent[d]] = ".git"
          /\ IsPattern(tree.name[d])
          /\ GetDirStats(tree, d).size >= MIN_SIZE

----------------------------------------------------------------------------
(* Properties of selectItems *)

LastKey == keys[Len(keys)]

\* the session has resolved on Enter
ConfirmedByEnter == session = "resolved" /\ keys # <<>> /\ LastKey = "enter"

\* the session has resolved on q
QuitByQ == session = "resolved" /\ keys # <<>> /\ LastKey = "q"

\* where record r stands in the input list
IndexOf(r) == CHOOSE i \in Indices(items) : items[i] = r

\* C7: on Enter the session resolves with exactly the records whose flag is
\* set, each once, in the order of the input list
ConfirmReturnsSelection ==
    ConfirmedByEnter =>
      /\ \A k \in Indices(resolved) :
            \E i \in Indices(items) : resolved[k] = items[i]
      /\ \A i \in Indices(items) :
            selected[i] <=> \E k \in Indices(resolved) : resolved[k] = items[i]
      /\ \A k, l \in Indices(resolved) :
            k < l => IndexOf(resolved[k]) < IndexOf(resolved[l])

\* Enter after a toggle leaves the first and third of at least three records
ConfirmedFirstAndThird ==
    /\ ConfirmedByEnter
    /\ Len(keys) = 3
    /\ keys[2] = " "
    /\ Len(items) >= 3
    /\ \A i \in Indices(items) : selected[i] <=> i \in {1, 3}
    /\ resolved = <<items[1], items[3]>>

\* C8: a session starts with every item selected, so that Enter as the first
\* key returns the whole list; n, then space on item 0, then Enter returns
\* item 0 alone
StartsAllSelected ==
    /\ (session = "waiting" /\ keys = <<>>) =>
          /\ Len(selected) = Len(items)
          /\ \A i \in Indices(items) : selected[i]
    /\ (session = "resolved" /\ keys = <<"enter">>) => resolved = items
    /\ (session = "resolved" /\ keys = <<"n", " ", "enter">> /\ cursor = 0) =>
          resolved = <<items[1]>>

\* n, space on item 0 and Enter on a list of several records
NoneToggleConfirm ==
    /\ session = "resolved"
    /\ keys = <<"n", " ", "enter">>
    /\ cursor = 0
    /\ Len(items) >= 2
    /\ resolved = <<items[1]>>

\* C9: the cursor stays within 0 .. length-1; up at 0 and down at length-1
\* leave it, and otherwise up and down move it by exactly one
CursorInRange ==
    /\ [](session # "idle" => (0 <= cursor /\ cursor <= Len(items) - 1))
    /\ [][ /\ KeyUp => cursor' = (IF cursor = 0 THEN 0 ELSE cursor - 1)
           /\ KeyDown => cursor' = (IF cursor = Len(items) - 1
                                    THEN Len(items) - 1 ELSE cursor + 1) ]_vars

\* on a single-item list, down and then up have been handled
SingleItemUpDown ==
    /\ session = "waiting"
    /\ Len(items) = 1
    /\ keys = <<"down", "up">>
    /\ cursor = 0

\* C10: on q the session resolves with the empty list, whatever is selected
QuitReturnsNothing == QuitByQ => resolved = <<>>

\* q with every one of several records selected
QuitWithAllSelected ==
    /\ QuitByQ
    /\ Len(items) >= 2
    /\ \A i \in Indices(items) : selected[i]
    /\ resolved = <<>>

----------------------------------------------------------------------------
(* Properties of getDirStats and of scan under read failures *)

\* the directory a record was made for
DirAt(path) == CHOOSE d \in DirsOf(tree) : FullPath(tree, d) = path

\* a read of directory d fails: its listing, or the stat of one of its entries
ReadFails(d) ==
    \/ d \in tree.denied
    \/ \E i \in Indices(tree.files[d]) : tree.files[d][i].throws

\* the first entry whose stat fails, or one past the last entry
FirstThrow(entries) ==
    IF \E i \in Indices(entries) : entries[i].throws
    THEN CHOOSE i \in Indices(entries) :
           /\ entries[i].throws
           /\ \A j \in 1..(i - 1) : ~ entries[j].throws
    ELSE Len(entries) + 1

\* bytes and files of the first k entries of a listing, subdirectories with
\* all they contribute
RECURSIVE Counted(_, _), Contribution(_)
Counted(entries, k) ==
    IF k = 0 THEN [size |-> 0, fileCount |-> 0]
    ELSE LET before == Counted(entries, k - 1)
             this == IF entries[k].kind = "dir"
                     THEN Contribution(entries[k].id)
                     ELSE [size |-> entries[k].size, fileCount |-> 1]
         IN  [size |-> before.size + this.size,
              fileCount |-> before.fileCount + this.fileCount]

\* what directory d adds to the totals of its parent
Contribution(d) ==
    IF d \in tree.denied THEN [size |-> 0, fileCount |-> 0]
    ELSE LET entries == Readdir(tree, d)
             k == FirstThrow(entries)
             before == Counted(entries, k - 1)
         IN  [size |-> before.size,
              fileCount |-> before.fileCount
                              + (IF k <= Len(entries) THEN 1 ELSE 0)]

\* C14 as stated: a directory with a failing read counts zero bytes and zero
\* files
ZeroOnAnyFailure ==
    \A i \in Indices(results) :
       ReadFails(DirAt(results[i].path)) =>
          results[i].size = 0 /\ results[i].fileCount = 0

\* C14 as amended: a directory whose listing fails counts zero bytes and zero
\* files; one with an entry whose stat fails counts the entries before that
\* entry, and that entry as one file of no bytes, and nothing after it
PartialOnStatFailure ==
    \A i \in Indices(results) :
       LET d == DirAt(results[i].path)
       IN  /\ results[i].size = Contribution(d).size
           /\ results[i].fileCount = Contribution(d).fileCount
           /\ d \in tree.denied =>
                 results[i].size = 0 /\ results[i].fileCount = 0

\* a record of 1 MB and two files for a directory holding a file of 1 MB, a
\* broken link and another file of 1 MB
PartialRecord ==
    /\ tree = DeniedSiblingTree
    /\ \E i \in Indices(results) :
          /\ results[i].relativePath = <<"node_modules">>
          /\ results[i].size = 1048576
          /\ results[i].fileCount = 2

\* the steps an activation of findArtifacts for directory d still takes from
\* entry idx on, its return included
RECURSIVE StepsOf(_, _)
StepsOf(d, idx) ==
    LET entries == Listing(tree, d)
    IN  IF idx > Len(entries) THEN 1
        ELSE LET e == entries[idx]
                 below == IF /\ e.kind = "dir"
                             /\ ~IsSkipped(tree.name[e.id])
                             /\ ~IsPattern(tree.name[e.id])
                          THEN StepsOf(e.id, 1)
                          ELSE 0
             IN  1 + below + StepsOf(d, idx + 1)

\* the steps the activations st[1..k] still take
RECURSIVE StepsOfFrames(_, _)
StepsOfFrames(st, k) ==
    IF k = 0 THEN 0
    ELSE StepsOf(st[k].dir, st[k].idx) + StepsOfFrames(st, k - 1)

\* the steps scan still takes before it has returned
StepsLeft(p, st) == IF p = "scan" THEN StepsOfFrames(st, Len(st)) ELSE 0

\* the loop of the running activation is at an entry of one of the four
\* kinds it tells apart, or at its end: one of the six steps can be taken
CanStep ==
    /\ stack # <<>>
    /\ \/ AtEntry /\ Entry.kind # "dir"
       \/ AtEntry /\ Entry.kind = "dir" /\ IsSkipped(EntryName)
       \/ AtEntry /\ Entry.kind = "dir" /\ ~IsSkipped(EntryName)
                  /\ IsPattern(EntryName)
       \/ AtEntry /\ Entry.kind = "dir" /\ ~IsSkipped(EntryName)
                  /\ ~IsPattern(EntryName)
       \/ Top.idx > Len(TopEntries) /\ Len(stack) > 1
       \/ Top.idx > Len(TopEntries) /\ Len(stack) = 1

\* C15: under any failures of listings and stats the walk is never stuck and
\* every step brings its end nearer, so scan returns; a directory that cannot
\* be listed is walked as if empty, and every artifact the walk still
\* reaches, at or above the threshold, is returned
ScanSurvivesFailures ==
    /\ [](pc = "scan" => CanStep /\ StepsLeft(pc, stack) > 0)
    /\ [][pc = "scan" =>
            StepsLeft(pc', stack') = StepsLeft(pc, stack) - 1]_vars
    /\ [](Scanned =>
            /\ \A i \in Indices(results) : Matched(DirAt(results[i].path))
            /\ \A d \in DirsOf(tree) :
                  (Matched(d) /\ GetDirStats(tree, d).size >= MIN_SIZE) =>
                     \E i \in Indices(results) :
                        results[i].path = FullPath(tree, d))

\* src cannot be listed: its node_modules is left out, and the node_modules
\* of its readable sibling lib is returned
SiblingOfDeniedReported ==
    /\ Scanned
    /\ tree = DeniedSiblingTree
    /\ \E i \in Indices(results) :
          results[i].relativePath = <<"lib", "node_modules">>
    /\ \A i \in Indices(results) :
          results[i].relativePath # <<"src", "node_modules">>

----------------------------------------------------------------------------
(* Properties of the ways out of selectItems *)

\* the session is over: resolved, exited, or rejected by a throwing render
Left == session \in {"resolved", "exited", "rejected"}

\* C11: however the selector is left, raw mode is off
LeavesRawModeOff == Left => ~rawMode

\* the last key was Ctrl+C
Interrupted == keys # <<>> /\ LastKey = "^C"

\* C12 as stated: on Ctrl+C the session resolves with the empty list, raw
\* mode released
InterruptResolvesEmpty ==
    Interrupted => session = "resolved" /\ resolved = <<>> /\ ~rawMode

\* C12 as amended: on Ctrl+C raw mode is released, the listener removed and
\* the process exits with status 0; the session is never resolved
InterruptExits ==
    Interrupted =>
      /\ session = "exited"
      /\ exitCode = "0"
      /\ resolved = <<>>
      /\ ~rawMode
      /\ ~listening

\* Ctrl+C after another key, with records selected
InterruptedWithSelection ==
    /\ Interrupted
    /\ session = "exited"
    /\ Len(keys) >= 2
    /\ Len(items) >= 2
    /\ \E i \in Indices(items) : selected[i]

----------------------------------------------------------------------------
(* Properties of the whole run *)

\* the paths rm has been called with
RmPaths == {rmCalls[k] : k \in Indices(rmCalls)}

\* C13: rm is called only with the path of a record that was selected when
\* Enter confirmed, and only such a directory is removed; after quit, after
\* an interrupt, and after a confirm with nothing selected nothing is removed
DeletesOnlyConfirmed ==
    /\ \A p \in RmPaths \cup removed :
          /\ ConfirmedByEnter
          /\ \E i \in Indices(items) : items[i].path = p /\ selected[i]
    /\ ( \/ session \in {"idle", "waiting", "exited", "rejected"}
         \/ QuitByQ
         \/ ConfirmedByEnter /\ \A i \in Indices(items) : ~selected[i] )
       => rmCalls = <<>> /\ removed = {}

\* the run is over with the first and third of three records removed, the
\* second, unselected, not
RemovedFirstAndThird ==
    /\ pc = "done"
    /\ ConfirmedByEnter
    /\ Len(items) = 3
    /\ ~selected[2]
    /\ removed = {items[1].path, items[3].path}

----------------------------------------------------------------------------
(* Properties of formatSize *)

\* the tenths a text of one decimal stands for
TenthsOf(text) == 10 * text.int + text.frac[1]

\* text, of one decimal, is b / u to the nearest tenth, the larger one on a
\* tie: -u/2 < tenths * u - 10 * b <= u/2, in units of 1024
NearestTenth(text, b, u) ==
    LET t == TenthsOf(text) - 10 * (b \div u)
        r == b % u
        v == u \div 1024
    IN  /\ Len(text.frac) = 1
        /\ text.frac[1] \in 0..9
        /\ t * v - 10 * (r \div 1024) - (10 * (r % 1024)) \div 1024
              \in (1 - v \div 2)..(v \div 2)

\* C16: below 1024 bytes the size is given in B as it is; below 2^20 in KB
\* with no decimal; below 2^30 in MB, and from 2^30 on in GB, with one
\* decimal, the value being the nearest one; formatSize(1023) = "1023 B",
\* formatSize(1048576) = "1.0 MB", formatSize(1073741824) = "1.0 GB"
UnitByRange ==
    pc = "formatted" =>
      /\ bytes < 1024 =>
            formatted = Text(bytes, <<>>, "B")
      /\ (1024 <= bytes /\ bytes < 1048576) =>
            /\ formatted.unit = "KB"
            /\ formatted.frac = <<>>
            /\ formatted.int * 1024 - bytes \in -511..512
      /\ (1048576 <= bytes /\ bytes < 1073741824) =>
            /\ formatted.unit = "MB"
            /\ NearestTenth(formatted, bytes, 1048576)
      /\ 1073741824 <= bytes =>
            /\ formatted.unit = "GB"
            /\ NearestTenth(formatted, bytes, 1073741824)
      /\ bytes = 1023 => formatted = Text(1023, <<>>, "B")
      /\ bytes = 1048576 => formatted = Text(1, <<0>>, "MB")
      /\ bytes = 1073741824 => formatted = Text(1, <<0>>, "GB")

\* formatSize(1048576) has returned "1.0 MB"
OneMegabyte ==
    /\ pc = "formatted"
    /\ bytes = 1048576
    /\ formatted = Text(1, <<0>>, "MB")

----------------------------------------------------------------------------
(* Properties of scan under --stale *)

\* the directories of the project that holds artifact d: the directory the
\* artifact is in and all below it, the artifact itself and .git left out
ProjectDirs(d) ==
    LET project == FullPath(tree, tree.parent[d])
    IN  { x \in {0} \cup DirsOf(tree) :
            /\ FullPath(tree, x) = project \/ Below(FullPath(tree, x), project)
            /\ x # d
            /\ ~Below(FullPath(tree, x), FullPath(tree, d))
            /\ \A k \in Indices(RelativePath(tree, x)) :
                  RelativePath(tree, x)[k] # ".git" }

\* how long ago the project that holds artifact d was last modified
ProjectAge(d) ==
    CHOOSE a \in {tree.age[x] : x \in ProjectDirs(d)} :
       \A x \in ProjectDirs(d) : a <= tree.age[x]

\* C17: with --stale, every returned artifact belongs to a project last
\* modified at least that long ago
StaleOnly ==
    Scanned =>
      \A i \in Indices(results) :
         ProjectAge(DirAt(results[i].path)) >= filter.staleMs

----------------------------------------------------------------------------
(* Properties of the selector's view and of its keys *)

\* a step that ends in a completed render()
Renders ==
    /\ SelectItems \/ KeyUp \/ KeyDown \/ KeyToggle \/ KeyAll \/ KeyNone
         \/ KeyOther
    /\ session' = "waiting"

\* max(5, rows - 14) for a terminal of r rows, 24 rows where none is known
Height(r) == IF (IF r = 0 THEN 24 ELSE r) - 14 >= 5
             THEN (IF r = 0 THEN 24 ELSE r) - 14
             ELSE 5

\* row c is among the rows drawn from row off on a terminal of r rows
Visible(c, off, r) == off <= c /\ c < off + Height(r)

\* C18: after every render the cursor row is among the rows drawn,
\* scrollOffset <= cursor < scrollOffset + max(5, rows - 14), and
\* 0 <= scrollOffset <= length - 1, whatever keys and changes of the
\* terminal height came before
CursorVisible ==
    [][Renders =>
         /\ Visible(cursor', scrollOffset', rows')
         /\ 0 <= scrollOffset'
         /\ scrollOffset' <= Len(items') - 1]_vars

\* the view has scrolled down: the cursor is on the last row drawn
ScrolledToCursor ==
    /\ session = "waiting"
    /\ keys # <<>>
    /\ LastKey \in {"down", "j"}
    /\ scrollOffset >= 1
    /\ cursor = scrollOffset + Height(rows) - 1

\* C19 as stated: another key changes neither selected, cursor nor
\* scrollOffset, and leaves the session unresolved
OtherKeyChangesNothing ==
    [][KeyOther =>
         /\ UNCHANGED <<selected, cursor, scrollOffset>>
         /\ session' = "waiting"]_vars

\* C19 as amended: another key changes neither selected nor cursor and leaves
\* the session unresolved; the render it ends in changes scrollOffset only if
\* the cursor row was not among the rows drawn at the present terminal height
OtherKeyOnlyRenders ==
    [][KeyOther =>
         /\ UNCHANGED <<selected, cursor, items, resolved, rawMode, listening>>
         /\ session' = "waiting"
         /\ Visible(cursor, scrollOffset, rows) => scrollOffset' = scrollOffset
         /\ Visible(cursor', scrollOffset', rows')]_vars

\* another key has been handled while the view was scrolled
OtherKeyWhileScrolled ==
    /\ session = "waiting"
    /\ keys # <<>>
    /\ LastKey = "other"
    /\ scrollOffset >= 1
    /\ \E i \in Indices(items) : ~selected[i]

\* C20: toggle flips the flag at the cursor and no other, and leaves the
\* cursor; select-all and select-none set every flag and leave the cursor;
\* up and down leave every flag; selected is as long as the list throughout
SelectionKeysFrame ==
    /\ [](session # "idle" => Len(selected) = Len(items))
    /\ [][ /\ KeyToggle =>
                /\ cursor' = cursor
                /\ \A i \in Indices(items) :
                      selected'[i] = (IF i = cursor + 1 THEN ~selected[i]
                                      ELSE selected[i])
           /\ KeyAll =>
                /\ cursor' = cursor
                /\ \A i \in Indices(items) : selected'[i]
           /\ KeyNone =>
                /\ cursor' = cursor
                /\ \A i \in Indices(items) : ~selected'[i]
           /\ (KeyUp \/ KeyDown) => selected' = selected
           /\ (KeyToggle \/ KeyAll \/ KeyNone \/ KeyUp \/ KeyDown) =>
                /\ UNCHANGED <<items, resolved>>
                /\ session' = "waiting" ]_vars

\* space on a row below the first has cleared that row's flag alone
ToggledAtCursor ==
    /\ session = "waiting"
    /\ keys # <<>>
    /\ LastKey = " "
    /\ cursor >= 1
    /\ \A i \in Indices(items) : selected[i] <=> i # cursor + 1

----------------------------------------------------------------------------
(* Properties of getDirStats when every read succeeds *)

\* directory d and every directory below it
Under(d) ==
    { x \in DirsOf(tree) :
        x = d \/ Below(FullPath(tree, x), FullPath(tree, d)) }

\* the regular files and symbolic links of the directories in S, each as
\* <<directory, position>>
FilesIn(S) ==
    UNION { { <<x, k>> : k \in { k \in 1..Len(tree.files[x]) :
                                   tree.files[x][k].kind
                                      \in {"file", "symlink"} } } :
            x \in S }

\* the sizes of the entries in F added up
RECURSIVE SizeOf(_)
SizeOf(F) ==
    IF F = {} THEN 0
    ELSE LET f == CHOOSE f \in F : TRUE
         IN  tree.files[f[1]][f[2]].size + SizeOf(F \ {f})

\* C21: when no read fails, the size of a record is the sum of the sizes of
\* all regular files and symbolic links in the whole subtree of its directory,
\* and its fileCount is their number; directories are not counted, and no
\* subdirectory, .git and pattern-named ones included, is left out
SumsWholeSubtree ==
    \A i \in Indices(results) :
       LET F == FilesIn(Under(DirAt(results[i].path)))
       IN  /\ results[i].size = SizeOf(F)
           /\ results[i].fileCount = Cardinality(F)

\* a record for a directory that holds .git and a pattern-named directory,
\* with a symbolic link somewhere below: all their files are counted
CountsGitAndArtifacts ==
    \E i \in Indices(results) :
       LET d == DirAt(results[i].path)
           F == FilesIn(Under(d))
       IN  /\ \E c \in SubDirs(tree, d) : tree.name[c] = ".git"
           /\ \E c \in SubDirs(tree, d) : IsPattern(tree.name[c])
           /\ \E f \in F : tree.files[f[1]][f[2]].kind = "symlink"
           /\ results[i].fileCount = Cardinality(F)
           /\ results[i].fileCount >= 4

----------------------------------------------------------------------------
(* Properties of scan and its progress sink *)

\* the directories matched at or below directory d, in the order of the walk
RECURSIVE MatchedBelow(_), MatchedAmong(_, _)
MatchedBelow(d) == MatchedAmong(Ascending(SubDirs(tree, d)), 1)

MatchedAmong(subs, k) ==
    IF k > Len(subs) THEN <<>>
    ELSE LET here == IF tree.name[subs[k]] \in SKIP_DIRS THEN <<>>
                     ELSE IF IsPattern(tree.name[subs[k]]) THEN <<subs[k]>>
                     ELSE MatchedBelow(subs[k])
         IN  here \o MatchedAmong(subs, k + 1)

\* the list scan returns for the tree, no sink being looked at
SinkFreeList ==
    LET order == MatchedBelow(0)
    IN  FilterMinSize(SortBySize([k \in Indices(order) |->
                                    ScanResult(tree, order[k])]))

----------------------------------------------------------------------------
(* Properties of main's command line, checked under SpecArgs *)

\* both --only and --exclude are on the command line
BothGiven ==
    IndexOfArg(args, "--only") # 0 /\ IndexOfArg(args, "--exclude") # 0

\* the value of a flag that is given names a category the registry lacks
UnknownNamed ==
    \E name \in {"--only", "--exclude"} :
        LET idx == IndexOfArg(args, name)
        IN  /\ idx # 0
            /\ ~NoValue(args, idx)
            /\ HasUnknown(args[idx + 1].parts)

\* the program has exited with an error and nothing was scanned, selected
\* or deleted
ExitedBeforeScan ==
    /\ pc = "done"
    /\ exitCode = "1"
    /\ stack = <<>>
    /\ results = <<>>
    /\ progress = <<>>
    /\ session = "idle"
    /\ rmCalls = <<>>
    /\ removed = {}

----------------------------------------------------------------------------
(* Properties of main between scan and selectItems, checked under SpecMain *)

\* C24: selectItems is never invoked with an empty list: when scan returns
\* no records main exits before the selector starts, and the list of a
\* session has at least one record.
NeverSelectsEmpty ==
    /\ (pc = "select" \/ session # "idle") => Len(items) >= 1
    /\ (pc = "done" /\ Len(results) = 0) =>
         /\ session = "idle"
         /\ items = <<>>
         /\ ~rawMode
         /\ exitCode = "0"

\* C24 witness: scan found nothing above the minimum size in a tree that
\* holds an artifact directory, and main has exited without a session
ExitedAllClean ==
    /\ pc = "done"
    /\ Len(results) = 0
    /\ \E d \in DirsOf(tree) : d # 0 /\ IsPattern(tree.name[d])
    /\ session = "idle"
    /\ exitCode = "0"

\* C25: for every non-empty list scan produces, the selector's first render
\* completes and the session waits for a key.
FirstRenderCompletes ==
    (pc \in {"select", "done"} /\ session # "idle") => session = "waiting"

----------------------------------------------------------------------------
(* Properties of a resolved session, checked under SpecInert *)

\* C26: a session resolves at most once and is inert afterwards: once a quit
\* or a confirm is handled, no step changes cursor, selected or scrollOffset,
\* puts stdin back in raw mode, attaches the listener again, or alters the
\* list the session resolved with.
InertOnceResolved ==
    [][session = "resolved" =>
         /\ session' = "resolved"
         /\ resolved' = resolved
         /\ selected' = selected
         /\ cursor' = cursor
         /\ scrollOffset' = scrollOffset
         /\ items' = items
         /\ ~rawMode'
         /\ ~listening']_vars

\* C26 witness: the session was confirmed with every record selected, and
\* the keys typed since ("n", then the down key) have changed nothing
LateKeysIgnored ==
    /\ session = "resolved"
    /\ keys = <<"n", "down">>
    /\ cursor = 0
    /\ Len(items) > 1
    /\ selected = AllSelected(Len(items))
    /\ resolved = items
    /\ ~rawMode

====
